---- MODULE Spec2Model ----
(***************************************************************************)
(* A model of the Game-of-Life Universe of src/src/lib.rs: the cell       *)
(* buffer, its dimensions, the toroidal neighbour count, tick() with its  *)
(* stagnation reseed, set_cells(), set_width(), set_height() and the read *)
(* accessors render(), width(), height() and get_cells().                 *)
(*                                                                         *)
(* Cells are numbers (Dead = 0, Alive = 1, the enum's u8 encoding).  The  *)
(* buffer is a sequence; the Rust index idx is position idx + 1 here.     *)
(* In Spec, SpecGrid, SpecCells and SpecLive every dimension, coordinate  *)
(* and index stays far below 2^32, so the u32 operations are modelled by  *)
(* exact arithmetic, except the product width * height of a resize,     *)
(* which is computed at the full width of u32 and overflows in            *)
(* SpecResize; SpecU32 follows the index arithmetic at the full width of  *)
(* u32.  A panic (an index out of bounds, a row length of 0 in   *)
(* render(), an arithmetic overflow in a build that checks for it) sets   *)
(* `panicked` and ends the use of the Universe.                            *)
(***************************************************************************)
EXTENDS Integers, Sequences, FiniteSets, TLC

VARIABLES
    width,      \* Universe.width  (u32)
    height,     \* Universe.height (u32)
    cells,      \* Universe.cells  (Vec<Cell>), row-major
    panicked,   \* a call panicked: the Universe is not used afterwards
    op,         \* history: the last operation called
    arg,        \* history: its argument (<<n>> for a resize, the pairs for set_cells)
    reseeded,   \* history: the last tick() took the reseed branch
    out         \* what the last operation returned (<<>> for a mutator)

vars == <<width, height, cells, panicked, op, arg, reseeded, out>>

----------------------------------------------------------------------------
(* Bounds of the model. *)

\* set_width / set_height are called with 0..MaxDim
MaxDim == 3
\* tick() and set_cells() are explored on buffers of at most MaxCells cells
MaxCells == 6
\* set_cells() is called with at most MaxPairs pairs
MaxPairs == 1
\* the buffers SpecGrid starts from hold at most MaxAlive Alive cells
MaxAlive == 4
\* the grids SpecCells starts from have dimensions 4..MaxGridDim
MaxGridDim == 5
\* and hold at most MaxPreset Alive cells
MaxPreset == 1
\* SpecResize follows a resize when the buffer it allocates has at most
\* MaxBuffer cells
MaxBuffer == 4096

----------------------------------------------------------------------------
(* Program constants. *)

Dead == 0
Alive == 1
DefaultWidth == 64
DefaultHeight == 64

----------------------------------------------------------------------------
(* u32 arithmetic at its full width.  The values pass the range of the    *)
(* model checker's integers, so a number is held as six digits of base    *)
(* 2^14, least significant first (below 2^84; a u32 has its upper three   *)
(* digits 0 and its third digit below 16).                                *)

Base == 2^14

\* the digits of an integer 0 <= n < 2^31
Wide(n) == <<n % Base, (n \div Base) % Base, n \div (Base * Base), 0, 0, 0>>

\* carry propagation over the coefficients co[k..6]
RECURSIVE wide_carry(_, _, _)
wide_carry(co, k, carry) ==
    IF k > 6 THEN <<>>
    ELSE <<(co[k] + carry) % Base>> \o wide_carry(co, k + 1, (co[k] + carry) \div Base)

\* a + b, exact
WideAdd(a, b) == wide_carry([k \in 1..6 |-> a[k] + b[k]], 1, 0)

\* a * b, exact, for a and b below 2^42
WideMul(a, b) ==
    LET term(i, k) == IF k + 1 - i \in 1..3 THEN a[i] * b[k + 1 - i] ELSE 0
    IN  wide_carry([k \in 1..6 |-> term(1, k) + term(2, k) + term(3, k)], 1, 0)

\* a < b, compared from digit k down
RECURSIVE wide_less_from(_, _, _)
wide_less_from(a, b, k) ==
    IF k = 0 THEN FALSE
    ELSE IF a[k] # b[k] THEN a[k] < b[k]
    ELSE wide_less_from(a, b, k - 1)

WideLess(a, b) == wide_less_from(a, b, 6)

WideLeq(a, b) == ~WideLess(b, a)

\* borrow propagation of a - b over the digits k..6
RECURSIVE wide_borrow(_, _, _, _)
wide_borrow(a, b, k, borrow) ==
    IF k > 6 THEN <<>>
    ELSE LET d == a[k] - b[k] - borrow
         IN  IF d < 0 THEN <<d + Base>> \o wide_borrow(a, b, k + 1, 1)
             ELSE <<d>> \o wide_borrow(a, b, k + 1, 0)

\* a - b, exact, for a >= b
WideSub(a, b) == wide_borrow(a, b, 1, 0)

\* 2^32 - 1 = (2^31 - 1) + (2^31 - 1) + 1
U32Max == WideAdd(WideAdd(Wide(2147483647), Wide(2147483647)), Wide(1))

\* what a u32 keeps of an exact result when the build wraps: x mod 2^32
wrap32(x) == <<x[1], x[2], x[3] % 16, 0, 0, 0>>

\* a % h on u32 values, h > 0
RECURSIVE wide_rem(_, _)
wide_rem(a, h) == IF WideLess(a, h) THEN a ELSE wide_rem(WideSub(a, h), h)

----------------------------------------------------------------------------
(* Cells *)

\* the integer of a wide number below 2^31
Narrow(x) == x[1] + x[2] * Base + x[3] * Base * Base

\* width * height of Cells::new and Cells::new_random, exact (w, h < 2^31)
u32_product(w, h) == WideMul(Wide(w), Wide(h))

\* the u32 multiplication width * height overflows
mul_overflows(w, h) == WideLess(U32Max, u32_product(w, h))

\* the end of the range 0..width * height when the multiplication does not
\* panic: the product, wrapped to u32 if it overflows
range_len(w, h) == Narrow(wrap32(u32_product(w, h)))

\* Cells::new when it returns: (0..width * height).map(|_| Cell::Dead)
Cells_new(w, h) == [i \in 1..range_len(w, h) |-> Dead]

\* Cells::new_random when it returns: every cell Alive or Dead by
\* Math.random(); the set of the buffers it can return
Cells_new_random(w, h) == [1..range_len(w, h) -> {Dead, Alive}]

\* Cells::new called by a resize that has already stored the dimension: when
\* width * height overflows, a build with overflow checks panics and the
\* old buffer stays, a build without them allocates the wrapped length
Reallocate(w, h) ==
    IF mul_overflows(w, h)
    THEN \/ panicked' = TRUE /\ cells' = cells
         \/ panicked' = FALSE /\ cells' = Cells_new(w, h)
    ELSE panicked' = FALSE /\ cells' = Cells_new(w, h)

----------------------------------------------------------------------------
(* Universe: indexing and neighbour count *)

\* Universe::get_index (with self.width = w)
\* variant: row and column exchanged
get_index_transposed(w, row, column) == column * w + row

get_index(w, row, column) == row * w + column

\* a slip: the row above taken as offset height instead of height - 1
row_offsets_no_wrap(h) == <<h, 0, 1>>

\* the row offsets [self.height - 1, 0, 1] and column offsets [self.width - 1, 0, 1]
row_offsets(h) == <<h - 1, 0, 1>>
col_offsets(w) == <<w - 1, 0, 1>>

\* the k-th (k in 0..8) iteration of the two nested offset loops
curr_row(h, k) == row_offsets(h)[(k \div 3) + 1]
curr_col(w, k) == col_offsets(w)[(k % 3) + 1]

\* the iteration is skipped: if curr_row == 0 && curr_col == 0 { continue; }
skipped(w, h, k) == curr_row(h, k) = 0 /\ curr_col(w, k) = 0

\* idx of the k-th iteration for the cell (row, column)
neighbour_index(w, h, row, column, k) ==
    get_index(w, (row + curr_row(h, k)) % h, (column + curr_col(w, k)) % w)

\* the iterations that read a cell, in loop order
counted(w, h) == {k \in 0..8 : ~skipped(w, h, k)}

RECURSIVE neighbour_sum(_, _, _, _, _, _)
neighbour_sum(c, w, h, row, column, k) ==
    IF k > 8 THEN 0
    ELSE (IF skipped(w, h, k) THEN 0
          ELSE c[neighbour_index(w, h, row, column, k) + 1])
         + neighbour_sum(c, w, h, row, column, k + 1)

\* Universe::live_neighbour_count on the buffer c
live_neighbour_count(c, w, h, row, column) == neighbour_sum(c, w, h, row, column, 0)

----------------------------------------------------------------------------
(* Universe::tick *)

\* a slip: the reproduction arm (Cell::Dead, 3) left out
next_cell_no_birth(cell, n) ==
    IF cell = Alive /\ n < 2 THEN Dead
    ELSE IF cell = Alive /\ (n = 2 \/ n = 3) THEN Alive
    ELSE IF cell = Alive /\ n > 3 THEN Dead
    ELSE cell

\* variant: the last arm yields Alive instead of the cell's previous state
next_cell_default_alive(cell, n) ==
    IF cell = Alive /\ n < 2 THEN Dead
    ELSE IF cell = Alive /\ (n = 2 \/ n = 3) THEN Alive
    ELSE IF cell = Alive /\ n > 3 THEN Dead
    ELSE IF cell = Dead /\ n = 3 THEN Alive
    ELSE Alive

\* the match on (cell, live_neighbours)
next_cell(cell, n) ==
    IF cell = Alive /\ n < 2 THEN Dead
    ELSE IF cell = Alive /\ (n = 2 \/ n = 3) THEN Alive
    ELSE IF cell = Alive /\ n > 3 THEN Dead
    ELSE IF cell = Dead /\ n = 3 THEN Alive
    ELSE cell

\* a slip: the generation updated in place, read from the buffer being written
tick_source_in_place(cur, next) == next

\* the buffer the neighbour count of an iteration is read from: self.cells
\* (cur), not the buffer being written (next)
tick_source(cur, next) == cur

\* the two nested loops, flattened: iteration k is row k / w, col k % w
RECURSIVE tick_loop(_, _, _, _, _)
tick_loop(cur, next, w, h, k) ==
    IF k >= w * h THEN next
    ELSE LET row == k \div w
             col == k % w
             idx == get_index(w, row, col)
             src == tick_source(cur, next)
             cell == src[idx + 1]
             live_neighbours == live_neighbour_count(src, w, h, row, col)
         IN  tick_loop(cur, [next EXCEPT ![idx + 1] = next_cell(cell, live_neighbours)],
                       w, h, k + 1)

\* next after the loops: let mut next = self.cells.clone(); for row.. for col..
next_generation(c, w, h) == tick_loop(c, c, w, h, 0)

\* every index the loops of tick() compute is inside the buffer
tick_in_bounds(c, w, h) ==
    \A row \in 0..(h - 1), col \in 0..(w - 1) :
        /\ get_index(w, row, col) < Len(c)
        /\ \A k \in counted(w, h) : neighbour_index(w, h, row, col, k) < Len(c)

\* a slip: the stagnation check left out, the next generation always kept
stagnant_never(c, next) == FALSE

\* a slip: only an all-Dead next generation taken for stagnation
stagnant_only_dead(c, next) == \A i \in 1..Len(next) : next[i] = Dead

\* the fork: if *self.cells == next { reseed } else { next }
stagnant(c, next) == c = next

History(o, a) ==
    /\ op' = o
    /\ arg' = a

\* variant: the reseed built with width and height exchanged
TickStep_transposing ==
    /\ ~panicked
    /\ History("tick", <<>>)
    /\ out' = <<>>
    /\ IF ~tick_in_bounds(cells, width, height)
       THEN /\ panicked' = TRUE
            /\ UNCHANGED <<width, height, cells, reseeded>>
       ELSE /\ panicked' = FALSE
            /\ LET next == next_generation(cells, width, height)
               IN  IF stagnant(cells, next)
                   THEN /\ cells' \in Cells_new_random(height, width)
                        /\ width' = height
                        /\ height' = width
                        /\ reseeded' = TRUE
                   ELSE /\ cells' = next
                        /\ UNCHANGED <<width, height>>
                        /\ reseeded' = FALSE

\* variant: the random source consulted for the first cell of every next
\* generation that is kept
TickStep_random_cell ==
    /\ ~panicked
    /\ History("tick", <<>>)
    /\ out' = <<>>
    /\ UNCHANGED <<width, height>>
    /\ IF ~tick_in_bounds(cells, width, height)
       THEN /\ panicked' = TRUE
            /\ UNCHANGED <<cells, reseeded>>
       ELSE /\ panicked' = FALSE
            /\ LET next == next_generation(cells, width, height)
               IN  IF stagnant(cells, next)
                   THEN /\ cells' \in Cells_new_random(width, height)
                        /\ reseeded' = TRUE
                   ELSE /\ cells' \in {[next EXCEPT ![1] = v] : v \in {Dead, Alive}}
                        /\ reseeded' = FALSE

TickStep ==
    /\ ~panicked
    /\ History("tick", <<>>)
    /\ out' = <<>>
    /\ UNCHANGED <<width, height>>
    /\ IF ~tick_in_bounds(cells, width, height)
       THEN /\ panicked' = TRUE
            /\ UNCHANGED <<cells, reseeded>>
       ELSE /\ panicked' = FALSE
            /\ LET next == next_generation(cells, width, height)
               IN  IF stagnant(cells, next)
                   THEN /\ cells' \in Cells_new_random(width, height)
                        /\ reseeded' = TRUE
                   ELSE /\ cells' = next
                        /\ reseeded' = FALSE

Tick ==
    /\ Len(cells) <= MaxCells
    /\ TickStep

----------------------------------------------------------------------------
(* Universe::set_width, Universe::set_height *)

\* self.width = width; self.cells = Cells::new(width, self.height)
SetWidth(n) ==
    /\ ~panicked
    /\ History("set_width", <<n>>)
    /\ out' = <<>>
    /\ width' = n
    /\ Reallocate(n, height)
    /\ reseeded' = FALSE
    /\ UNCHANGED height

\* self.height = height; self.cells = Cells::new(self.width, height)
SetHeight(n) ==
    /\ ~panicked
    /\ History("set_height", <<n>>)
    /\ out' = <<>>
    /\ height' = n
    /\ Reallocate(width, n)
    /\ reseeded' = FALSE
    /\ UNCHANGED width

----------------------------------------------------------------------------
(* Universe::set_cells *)

\* the loop over the pairs from the i-th on; an index outside the buffer
\* panics and leaves the writes of the earlier pairs in place
RECURSIVE set_cells_loop(_, _, _, _)
set_cells_loop(c, w, pairs, i) ==
    IF i > Len(pairs) THEN [cells |-> c, panicked |-> FALSE]
    ELSE LET idx == get_index(w, pairs[i][1], pairs[i][2])
         IN  IF idx >= Len(c) THEN [cells |-> c, panicked |-> TRUE]
             ELSE set_cells_loop([c EXCEPT ![idx + 1] = Alive], w, pairs, i + 1)

\* the arguments set_cells() is called with on a w x h grid: up to MaxPairs
\* pairs, each inside the grid or one row or one column outside it
Coords(w, h) == (0..h) \X (0..w)
PairLists(w, h) == UNION {[1..n -> Coords(w, h)] : n \in 0..MaxPairs}

SetCells(pairs) ==
    /\ ~panicked
    /\ History("set_cells", pairs)
    /\ out' = <<>>
    /\ LET r == set_cells_loop(cells, width, pairs, 1)
       IN  /\ cells' = r.cells
           /\ panicked' = r.panicked
    /\ reseeded' = FALSE
    /\ UNCHANGED <<width, height>>

----------------------------------------------------------------------------
(* The read accessors *)

\* the glyph of a cell: if cell == Cell::Dead { '\u{25FB}' } else { '\u{25FC}' }
symbol(cell) == IF cell = Dead THEN "U+25FB" ELSE "U+25FC"

\* slice::chunks(n) for n > 0 cuts the buffer into consecutive chunks of n
\* elements, the last one shorter when n does not divide the length: the
\* number of chunks, and the length of the i-th (i from 1)
chunk_count(c, n) == (Len(c) + n - 1) \div n
chunk_len(c, n, i) == IF i * n <= Len(c) THEN n ELSE Len(c) - (i - 1) * n

\* Display::fmt for a Universe of width w > 0 holding the buffer c: the
\* string, as the sequence of its characters.  The loops write, for each
\* chunk in order, the symbols of its cells and then "\n"; every chunk but
\* the last has w cells, so character p of the string belongs to chunk
\* (p - 1) / (w + 1) + 1 and is its k-th symbol, k = (p - 1) % (w + 1) + 1,
\* or the newline after its last symbol.
fmt(c, w) ==
    [p \in 1..(Len(c) + chunk_count(c, w)) |->
        LET i == ((p - 1) \div (w + 1)) + 1
            k == ((p - 1) % (w + 1)) + 1
        IN  IF k <= chunk_len(c, w, i) THEN symbol(c[(i - 1) * w + k]) ELSE "\n"]

\* variant: the buffer is moved into the string and a fresh one left behind
Render_draining ==
    /\ ~panicked
    /\ History("render", <<>>)
    /\ IF width = 0
       THEN panicked' = TRUE /\ out' = <<>> /\ cells' = cells
       ELSE panicked' = FALSE /\ out' = fmt(cells, width) /\ cells' = Cells_new(width, height)
    /\ reseeded' = FALSE
    /\ UNCHANGED <<width, height>>

\* Universe::render: self.to_string(); chunks(0) panics
Render ==
    /\ ~panicked
    /\ History("render", <<>>)
    /\ IF width = 0
       THEN panicked' = TRUE /\ out' = <<>>
       ELSE panicked' = FALSE /\ out' = fmt(cells, width)
    /\ reseeded' = FALSE
    /\ UNCHANGED <<width, height, cells>>

\* Universe::width
ReadWidth ==
    /\ ~panicked
    /\ History("width", <<>>)
    /\ out' = width
    /\ reseeded' = FALSE
    /\ UNCHANGED <<width, height, cells, panicked>>

\* Universe::height
ReadHeight ==
    /\ ~panicked
    /\ History("height", <<>>)
    /\ out' = height
    /\ reseeded' = FALSE
    /\ UNCHANGED <<width, height, cells, panicked>>

\* Universe::get_cells
GetCells ==
    /\ ~panicked
    /\ History("get_cells", <<>>)
    /\ out' = cells
    /\ reseeded' = FALSE
    /\ UNCHANGED <<width, height, cells, panicked>>

----------------------------------------------------------------------------
(* Specifications *)

\* Universe::new()
Init ==
    /\ width = DefaultWidth
    /\ height = DefaultHeight
    /\ cells = Cells_new(DefaultWidth, DefaultHeight)
    /\ panicked = FALSE
    /\ op = "new"
    /\ arg = <<>>
    /\ reseeded = FALSE
    /\ out = <<>>

Next ==
    \/ Tick
    \/ /\ Len(cells) <= MaxCells
       /\ \E pairs \in PairLists(width, height) : SetCells(pairs)
    \/ \E n \in 0..MaxDim : SetWidth(n)
    \/ \E n \in 0..MaxDim : SetHeight(n)
    \/ Render
    \/ ReadWidth
    \/ ReadHeight
    \/ GetCells

\* the Universe driven through its whole interface from new()
Spec == Init /\ [][Next]_vars

\* the number of Alive cells of a buffer
alive_count(c) == Cardinality({i \in 1..Len(c) : c[i] = Alive})

\* A 4 x 4 Universe (the grid of the blinker and of the block) holding any
\* buffer of at most MaxAlive Alive cells: each is reachable from new() by
\* set_width(4), set_height(4) and set_cells().  tick() is then called
\* repeatedly; the exploration follows the grid up to its first reseed.
InitGrid ==
    /\ width = 4
    /\ height = 4
    /\ cells \in {c \in Cells_new_random(4, 4) : alive_count(c) <= MaxAlive}
    /\ panicked = FALSE
    /\ op = "set_cells"
    /\ arg = <<>>
    /\ reseeded = FALSE
    /\ out = <<>>

NextGrid ==
    /\ ~reseeded
    /\ TickStep

SpecGrid == InitGrid /\ [][NextGrid]_vars

\* the sets of at most k positions of a buffer of n cells
RECURSIVE PositionSets(_, _)
PositionSets(n, k) ==
    IF k = 0 THEN {{}}
    ELSE LET smaller == PositionSets(n, k - 1)
         IN  smaller \cup {S \cup {i} : S \in smaller, i \in 1..n}

\* the w x h buffers holding at most k Alive cells
Presets(w, h, k) ==
    {[i \in 1..w * h |-> IF i \in S THEN Alive ELSE Dead] : S \in PositionSets(w * h, k)}

\* One set_cells() call on a grid whose dimensions all exceed 3: the universe
\* holds any buffer of at most MaxPreset Alive cells and has just returned
\* from set_cells([]), which changes nothing.
InitCells ==
    /\ width \in 4..MaxGridDim
    /\ height \in 4..MaxGridDim
    /\ cells \in Presets(width, height, MaxPreset)
    /\ panicked = FALSE
    /\ op = "set_cells"
    /\ arg = <<>>
    /\ reseeded = FALSE
    /\ out = <<>>

NextCells == arg = <<>> /\ \E pairs \in PairLists(width, height) : SetCells(pairs)

SpecCells == InitCells /\ [][NextCells]_vars

\* Repeated tick() calls and nothing else, from any grid of at most MaxCells
\* cells and dimensions 0..MaxDim (each is reached from new() by set_width,
\* set_height and set_cells).  tick() keeps being called, and the random
\* source is fair: a value the reseed can draw for a cell again and again
\* is eventually drawn for it.
InitLive ==
    /\ width \in 0..MaxDim
    /\ height \in 0..MaxDim
    /\ width * height <= MaxCells
    /\ cells \in Cells_new_random(width, height)
    /\ panicked = FALSE
    /\ op = "set_cells"
    /\ arg = <<>>
    /\ reseeded = FALSE
    /\ out = <<>>

NextLive == TickStep

\* Cells::new_random draws every cell on its own; each draw is fair
FairRandom ==
    \A i \in 1..MaxCells : \A v \in {Dead, Alive} :
        SF_vars(TickStep /\ reseeded' /\ i <= Len(cells') /\ cells'[i] = v)

SpecLive == InitLive /\ [][NextLive]_vars /\ WF_vars(TickStep) /\ FairRandom

\* Resizes with small and with large arguments, and the accessors that a
\* state is observed through, from new().  2^26 * 64 = 2^32 is the least
\* product of a dimension of new() that does not fit in u32.
ResizeSamples == (0..MaxDim) \cup {2^26, 2^26 + 1}

\* the buffer a resize to w x h allocates when it returns is small enough
\* to be held
Allocatable(w, h) == WideLeq(wrap32(u32_product(w, h)), Wide(MaxBuffer))

NextResize ==
    \/ \E n \in ResizeSamples : Allocatable(n, height) /\ SetWidth(n)
    \/ \E n \in ResizeSamples : Allocatable(width, n) /\ SetHeight(n)
    \/ ReadWidth
    \/ ReadHeight
    \/ GetCells

SpecResize == Init /\ [][NextResize]_vars

----------------------------------------------------------------------------
(* The index arithmetic of live_neighbour_count and get_index on u32      *)
(* values of any size.                                                    *)

\* [self.height - 1, 0, 1] and [self.width - 1, 0, 1]
wide_row_offsets(h) == <<WideSub(h, Wide(1)), Wide(0), Wide(1)>>
wide_col_offsets(w) == <<WideSub(w, Wide(1)), Wide(0), Wide(1)>>

\* the sampled u32 values: small ones and those around 2^16, 2^31 and 2^32
U32Samples ==
    {Wide(1), Wide(2), Wide(3), Wide(65535), Wide(65536), Wide(65537),
     Wide(2147483647), WideAdd(Wide(2147483647), Wide(1)),
     WideAdd(Wide(2147483647), Wide(2)), U32Max}

\* the sampled coordinates below the dimension d
CoordSamples(d) ==
    {x \in U32Samples \cup {Wide(0), WideSub(d, Wide(1))} : WideLess(x, d)}

\* An arithmetic overflow panics in a build with overflow checks and wraps
\* in one without: either outcome.
Overflowing(exact, result) ==
    \/ panicked' = TRUE /\ out' = <<>>
    \/ panicked' = FALSE /\ out' = [exact |-> exact, result |-> result]

NotOverflowing(exact, result) ==
    panicked' = FALSE /\ out' = [exact |-> exact, result |-> result]

\* Universe::get_index on u32: row * self.width + column
WideGetIndex(row, column) ==
    LET product == WideMul(row, width)
        sum == WideAdd(wrap32(product), column)
    IN  /\ ~panicked
        /\ History("get_index", <<row, column>>)
        /\ IF product # wrap32(product) \/ sum # wrap32(sum)
           THEN Overflowing(<<product, sum>>, wrap32(sum))
           ELSE NotOverflowing(<<product, sum>>, wrap32(sum))
        /\ UNCHANGED <<width, height, cells, reseeded>>

\* iteration k of live_neighbour_count on u32, up to the neighbour's
\* coordinates: (row + curr_row) % self.height, (column + curr_col) % self.width
WideNeighbour(row, column, k) ==
    LET curr_r == wide_row_offsets(height)[(k \div 3) + 1]
        curr_c == wide_col_offsets(width)[(k % 3) + 1]
        row_sum == WideAdd(row, curr_r)
        col_sum == WideAdd(column, curr_c)
        neighbour_row == wide_rem(wrap32(row_sum), height)
        neighbour_col == wide_rem(wrap32(col_sum), width)
    IN  /\ ~panicked
        /\ ~(curr_r = Wide(0) /\ curr_c = Wide(0))
        /\ History("live_neighbour_count", <<row, column, k>>)
        /\ IF row_sum # wrap32(row_sum) \/ col_sum # wrap32(col_sum)
           THEN Overflowing(<<row_sum, col_sum>>, <<neighbour_row, neighbour_col>>)
           ELSE NotOverflowing(<<row_sum, col_sum>>, <<neighbour_row, neighbour_col>>)
        /\ UNCHANGED <<width, height, cells, reseeded>>

\* A universe whose width and height are sampled u32 values with a product
\* that fits in u32.  The buffer is left out (cells stays empty): only the
\* index arithmetic of an in-range cell is followed.
InitU32 ==
    /\ width \in U32Samples
    /\ height \in U32Samples
    /\ WideLeq(WideMul(width, height), U32Max)
    /\ cells = <<>>
    /\ panicked = FALSE
    /\ op = "set_height"
    /\ arg = <<height>>
    /\ reseeded = FALSE
    /\ out = <<>>

NextU32 ==
    \E row \in CoordSamples(height), column \in CoordSamples(width) :
        \/ WideGetIndex(row, column)
        \/ \E k \in 0..8 : WideNeighbour(row, column, k)

SpecU32 == InitU32 /\ [][NextU32]_vars

----------------------------------------------------------------------------
(* Definitions shared by the properties below.                             *)

\* the rule table of the transition, as the specification lists it
RuleTable(cell, n) ==
    CASE cell = Alive /\ n < 2 -> Dead
      [] cell = Alive /\ n \in {2, 3} -> Alive
      [] cell = Alive /\ n > 3 -> Dead
      [] cell = Dead /\ n = 3 -> Alive
      [] OTHER -> cell

\* the synchronous successor of the buffer c: every cell from its own state
\* and its live-neighbour count in c
Successor(c, w, h) ==
    [i \in 1..Len(c) |->
        RuleTable(c[i], live_neighbour_count(c, w, h, (i - 1) \div w, (i - 1) % w))]

\* a buffer of n cells, each Dead or Alive
IsGrid(c, n) == Len(c) = n /\ \A i \in 1..n : c[i] \in {Dead, Alive}

\* the 4 x 4 buffer whose Alive cells are the (row, column) pairs of s
Grid4(s) == [i \in 1..16 |-> IF <<(i - 1) \div 4, (i - 1) % 4>> \in s THEN Alive ELSE Dead]

BlinkerH == Grid4({<<1, 1>>, <<1, 2>>, <<1, 3>>})
BlinkerV == Grid4({<<0, 2>>, <<1, 2>>, <<2, 2>>})
Block == Grid4({<<1, 1>>, <<1, 2>>, <<2, 1>>, <<2, 2>>})

----------------------------------------------------------------------------
(* C1 as stated: in every state reachable from new() by tick(),           *)
(* set_cells(), set_width(n) and set_height(n) the length of the cell     *)
(* buffer equals width * height.                                          *)
C1_BufferLength == Wide(Len(cells)) = u32_product(width, height)

\* the same while width * height fits in u32
C1_BufferLengthOfFittingProduct ==
    ~mul_overflows(width, height) => C1_BufferLength

(* C2: when the next generation differs from the pre-tick buffer, the     *)
(* post-tick buffer is the synchronous successor of the pre-tick buffer:  *)
(* every cell by the rule table from its pre-tick state and its pre-tick  *)
(* live-neighbour count, never from a value written during the same tick. *)
C2_TickIsSynchronousSuccessor ==
    [][(op' = "tick" /\ ~panicked' /\ Successor(cells, width, height) # cells)
        => cells' = Successor(cells, width, height)]_vars

\* a tick that did not reseed, on a 3 x 2 grid left with Alive and Dead cells
C2_Witness ==
    /\ op = "tick" /\ ~reseeded /\ ~panicked
    /\ width = 3 /\ height = 2
    /\ \E i, j \in 1..Len(cells) : cells[i] = Alive /\ cells[j] = Dead

(* C3: on the 4 x 4 grid a tick() turns the horizontal blinker of row 1,  *)
(* columns 1..3 into the vertical one of column 2, rows 0..2, and the     *)
(* vertical one back into the horizontal one; neither tick reseeds.       *)
C3_Blinker ==
    [][(op' = "tick" /\ width = 4 /\ height = 4)
        => /\ cells = BlinkerH => (cells' = BlinkerV /\ ~reseeded')
           /\ cells = BlinkerV => (cells' = BlinkerH /\ ~reseeded')]_vars

\* the horizontal blinker, back after a tick
C3_Witness ==
    /\ op = "tick" /\ ~reseeded
    /\ width = 4 /\ height = 4 /\ cells = BlinkerH

C5_ReseedIffStagnant ==
    [][(op' = "tick" /\ ~panicked')
        => /\ reseeded' <=> (Successor(cells, width, height) = cells)
           /\ reseeded' => IsGrid(cells', width * height)
           /\ ~reseeded' => cells' = Successor(cells, width, height)
           /\ width' = width /\ height' = height]_vars

\* a reseed that drew a grid with both Alive and Dead cells
C5_Witness ==
    /\ op = "tick" /\ reseeded
    /\ \E i, j \in 1..Len(cells) : cells[i] = Alive /\ cells[j] = Dead

(* C6 as stated: for width > 0 and height > 0 and every cell, the         *)
(* neighbour count is in 0..8 and no counted index is the cell's own.     *)
C6_CountExcludesSelf ==
    (width > 0 /\ height > 0 /\ Len(cells) = width * height) =>
        \A row \in 0..(height - 1), column \in 0..(width - 1) :
            /\ live_neighbour_count(cells, width, height, row, column) \in 0..8
            /\ \A k \in counted(width, height) :
                  neighbour_index(width, height, row, column, k)
                      # get_index(width, row, column)

\* the flat indices the claim lists for the neighbours of (0, 0), in loop order
ListedNeighbours(W, H) ==
    << (H - 1) * W + (W - 1), (H - 1) * W, (H - 1) * W + 1,
       W - 1, 1,
       W + (W - 1), W, W + 1 >>

\* the indices live_neighbour_count(0, 0) reads, in loop order
RECURSIVE read_indices(_, _, _)
read_indices(w, h, k) ==
    IF k > 8 THEN <<>>
    ELSE (IF skipped(w, h, k) THEN <<>> ELSE <<neighbour_index(w, h, 0, 0, k)>>)
         \o read_indices(w, h, k + 1)

Distinct8(s) == Len(s) = 8 /\ Cardinality({s[i] : i \in 1..Len(s)}) = 8

(* C7 as stated: on every W x H grid the cells counted for (0, 0) are the *)
(* eight listed ones, pairwise distinct and none the index of (0, 0).     *)
C7_EightDistinctNeighbours ==
    (width > 0 /\ height > 0) =>
        /\ read_indices(width, height, 0) = ListedNeighbours(width, height)
        /\ Distinct8(read_indices(width, height, 0))
        /\ \A i \in 1..Len(read_indices(width, height, 0)) :
              read_indices(width, height, 0)[i] # get_index(width, 0, 0)

(* C7, amended: the same for every grid with W >= 3 and H >= 3.           *)
C7_EightDistinctNeighboursFrom3 ==
    (width >= 3 /\ height >= 3) =>
        /\ read_indices(width, height, 0) = ListedNeighbours(width, height)
        /\ Distinct8(read_indices(width, height, 0))
        /\ \A i \in 1..Len(read_indices(width, height, 0)) :
              read_indices(width, height, 0)[i] # get_index(width, 0, 0)

\* a non-square grid with both dimensions at least 3
C7_Witness ==
    /\ width >= 3 /\ height >= 3 /\ width # height
    /\ Len(cells) = width * height
    /\ Len(read_indices(width, height, 0)) = 8

\* a pair outside the grid
out_of_range(p, w, h) == p[1] >= h \/ p[2] >= w

Min(a, b) == IF a < b THEN a ELSE b

\* the buffer after set_cells with every pair clamped into the grid
ClampedSetCells(c, w, h, pairs) ==
    [i \in 1..Len(c) |->
        IF \E j \in 1..Len(pairs) :
              Min(pairs[j][1], h - 1) * w + Min(pairs[j][2], w - 1) + 1 = i
        THEN Alive ELSE c[i]]

(* C8 as stated: set_cells() given a pair with row >= height or           *)
(* column >= width is rejected, leaving the buffer as it was, or clamped; *)
(* it never sets another cell Alive through the flat index.               *)
C8_OutOfRangeRejectedOrClamped ==
    [][(op' = "set_cells"
        /\ \E j \in 1..Len(arg') : out_of_range(arg'[j], width, height))
        => \/ cells' = cells
           \/ cells' = ClampedSetCells(cells, width, height, arg')]_vars

(* C9 as stated: set_width(0) and set_height(0) are rejected: they leave  *)
(* width, height and the buffer unchanged, and width > 0 and height > 0   *)
(* in every reachable state.                                              *)
C9_ZeroDimensionRejected ==
    [][/\ (op' \in {"set_width", "set_height"} /\ arg' = <<0>>)
            => (width' = width /\ height' = height /\ cells' = cells)
       /\ width' > 0 /\ height' > 0]_vars

\* the resize that has just returned left the dimensions w x h and a buffer
\* of w * h cells, all Dead
ResetTo(w, h) ==
    /\ ~panicked'
    /\ width' = w
    /\ height' = h
    /\ Wide(Len(cells')) = u32_product(w, h)
    /\ \A i \in 1..Len(cells') : cells'[i] = Dead

(* C10 as stated: set_width(n) yields width = n, height unchanged and a    *)
(* buffer of n * height cells all Dead; set_height(n) yields height = n,   *)
(* width unchanged and a buffer of width * n cells all Dead; no prior cell *)
(* value survives either call.                                             *)
C10_ResizeResets ==
    [][/\ op' = "set_width" => ResetTo(arg'[1], height)
       /\ op' = "set_height" => ResetTo(width, arg'[1])]_vars

\* the same for the resizes whose product fits in u32
C10_ResizeResetsOfFittingProduct ==
    [][/\ (op' = "set_width" /\ ~mul_overflows(arg'[1], height))
            => ResetTo(arg'[1], height)
       /\ (op' = "set_height" /\ ~mul_overflows(width, arg'[1]))
            => ResetTo(width, arg'[1])]_vars

----------------------------------------------------------------------------
(* C11 *)

in_range(p, w, h) == p[1] < h /\ p[2] < w

\* the flat indices named by the pairs of a list, as positions of the buffer
Listed(pairs, w) == {pairs[j][1] * w + pairs[j][2] + 1 : j \in 1..Len(pairs)}

----------------------------------------------------------------------------
(* C12 *)

\* C12: under repeated tick() calls with a fair random source the grid is
\* never frozen forever: from every reachable state there is always
\* eventually a tick() whose post-tick buffer differs from its pre-tick
\* buffer.
C12_NeverFrozenForever == []<><<TickStep /\ cells' # cells>>_vars

\* the same on the grids that have a cell
C12_NonEmptyNeverFrozenForever ==
    (width > 0 /\ height > 0) => []<><<TickStep /\ cells' # cells>>_vars

----------------------------------------------------------------------------
(* C13 *)

\* the render() that has just returned is the string the claim describes for
\* the grid: height rows in row order, each of width glyphs and a newline,
\* the glyph of cell (r, c) telling Dead from Alive, and no other grid of
\* these dimensions having the same string
RenderedAsClaimed ==
    /\ ~panicked'
    /\ Len(out') = height * (width + 1)
    /\ \A r \in 0..height - 1 :
          /\ out'[r * (width + 1) + width + 1] = "\n"
          /\ \A c \in 0..width - 1 :
                /\ out'[r * (width + 1) + c + 1] \in {"U+25FB", "U+25FC"}
                /\ out'[r * (width + 1) + c + 1] = "U+25FB" <=> cells[r * width + c + 1] = Dead
    /\ Len(cells) <= MaxCells =>
          \A g \in Cells_new_random(width, height) : fmt(g, width) = out' => g = cells

\* C13: render() returns, for a grid of width W and height H, exactly H rows
\* in row order, each of W glyphs followed by one newline; the glyph at
\* position c of row r is the Dead glyph iff cell r * W + c is Dead and the
\* Alive glyph otherwise; two grids of the same dimensions have the same
\* string only if their buffers are equal.
C13_RenderFormat == [][op' = "render" => RenderedAsClaimed]_vars

\* the same for the grids of width > 0
C13_RenderFormatOfNonZeroWidth ==
    [][(op' = "render" /\ width > 0) => RenderedAsClaimed]_vars

----------------------------------------------------------------------------
(* C14 *)

ReadAccessors == {"render", "width", "height", "get_cells"}

\* C14: render(), width(), height() and get_cells() leave width, height and
\* the buffer unchanged, so a render() called right after a render() that
\* returned, with no mutator in between, returns the identical string.
C14_ReadsChangeNothing ==
    [][/\ op' \in ReadAccessors => (width' = width /\ height' = height /\ cells' = cells)
       /\ (op = "render" /\ ~panicked) => ENABLED (Render /\ ~panicked' /\ out' = out)]_vars

C14_Witness ==
    /\ op = "render"
    /\ ~panicked
    /\ width = 3
    /\ height = 2
    /\ alive_count(cells) = 2
    /\ Len(out) = 8

----------------------------------------------------------------------------
(* C15 *)

\* C15: in every reachable state tick() and the read accessors complete
\* without a runtime failure: every flat index tick() computes is below the
\* buffer length, tick() applies no modulo or subtraction to a zero
\* dimension (it visits no cell when a dimension is 0), and render() never
\* splits the buffer into rows of length 0.
C15_NoRuntimeFailure ==
    [][/\ op' \in ReadAccessors \cup {"tick"} => ~panicked'
       /\ ~panicked => tick_in_bounds(cells, width, height)
       /\ (~panicked /\ (width = 0 \/ height = 0)) => Len(cells) = 0
       /\ op' = "render" => width # 0]_vars

\* the part of it about tick(), width(), height() and get_cells()
C15_NoRuntimeFailureButRender ==
    [][/\ op' \in (ReadAccessors \ {"render"}) \cup {"tick"} => ~panicked'
       /\ ~panicked => tick_in_bounds(cells, width, height)
       /\ (~panicked /\ (width = 0 \/ height = 0)) => Len(cells) = 0]_vars

----------------------------------------------------------------------------
(* C16 *)

Resetters == {"new", "set_width", "set_height"}

----------------------------------------------------------------------------
(* C17 *)

\* C17: tick() never changes width or height, on the branch that keeps the
\* next generation and on the reseed branch alike.
C17_TickKeepsDimensions ==
    [][op' = "tick" => (width' = width /\ height' = height)]_vars

C17_Witness ==
    /\ op = "tick"
    /\ reseeded
    /\ ~panicked
    /\ width = 1
    /\ height = 3
    /\ alive_count(cells) = 2

----------------------------------------------------------------------------
(* C18 *)

\* the post-state (width, height, buffer, failure) that width, height and
\* the buffer alone determine for a tick() that keeps its next generation
KeptPostState == <<width, height, next_generation(cells, width, height), FALSE>>

\* C18: tick() is deterministic except for the reseed: a tick() that does not
\* take the reseed branch has no outcome but the one post-state determined
\* by width, height and the buffer, so two universes equal in these are
\* equal after it; only a tick() that takes the reseed branch has an
\* outcome that depends on the random source.
C18_TickDeterministicButReseed ==
    (~panicked /\ Len(cells) <= MaxCells) =>
        ~ENABLED (/\ TickStep
                  /\ ~reseeded'
                  /\ <<width', height', cells', panicked'>> # KeptPostState)

C18_Witness ==
    /\ ~panicked
    /\ width = 3
    /\ height = 2
    /\ alive_count(cells) = 3
    /\ ENABLED (TickStep /\ ~reseeded' /\ cells' # cells)

----------------------------------------------------------------------------
(* C19 *)

\* C19: for every width and height whose product fits in u32 and every
\* in-range cell, none of width * height, row * width + column,
\* row + (height - 1) and column + (width - 1) (nor the sums with the other
\* offsets) exceeds 2^32 - 1 before the modulo, so the wrapped neighbour
\* coordinates are the mathematical (row + offset) mod height and
\* (column + offset) mod width.
C19_NoU32Overflow ==
    /\ WideLeq(WideMul(width, height), U32Max)
    /\ op \in {"get_index", "live_neighbour_count"} =>
          /\ ~panicked
          /\ WideLeq(out.exact[1], U32Max)
          /\ WideLeq(out.exact[2], U32Max)
    /\ op = "live_neighbour_count" =>
          /\ out.result[1] = wide_rem(out.exact[1], height)
          /\ out.result[2] = wide_rem(out.exact[2], width)

\* the same for width and height up to 2^31
C19_NoU32OverflowUpTo2p31 ==
    LET half == WideAdd(Wide(2147483647), Wide(1))
    IN  (WideLeq(width, half) /\ WideLeq(height, half)) => C19_NoU32Overflow

\* the part of it about width * height and row * width + column
C19_NoU32OverflowOfIndex ==
    /\ WideLeq(WideMul(width, height), U32Max)
    /\ op = "get_index" =>
          (~panicked /\ WideLeq(out.exact[1], U32Max) /\ WideLeq(out.exact[2], U32Max))

====
